---------------------------- MODULE Spec2Model ----------------------------
(***************************************************************************)
(* Model of the persistent bash session of scripts/bash_tool.py:           *)
(* _BashSession (start / stop / run) and BashTool.forward, the shell       *)
(* process behind the pipes, and the asyncio tasks that call forward.      *)
(* A step of a task is the code between two suspension points (await       *)
(* create_subprocess_shell, await asyncio.sleep), which asyncio runs       *)
(* without interleaving.                                                   *)
(***************************************************************************)
EXTENDS Integers, Sequences, FiniteSets, TLC

\* ------------------------------------------------------------- bounds ----
\* number of _BashSession objects one BashTool may create
MaxSessions == 2
\* number of asyncio tasks that may call forward on the same BashTool
NumTasks == 2
\* number of calls of forward in a run in which calls overlap
MaxCalls == 4
\* capacity of the stderr pipe, in tokens: a command that would write beyond
\* it blocks until the transport has read the pipe
MaxErrPipe == 2

Tasks == 1..NumTasks

\* ----------------------------------------------------------- constants ---
\* _BashSession._sentinel, one token of the output stream
Sentinel == "<<exit>>"
NL == "\n"
\* commands a caller may pass to forward
Commands == {"", "echo hello", "sleep 1000", "exit", "ctrl+c"}
\* commands that write to standard output, to standard error, or to both
OutputCommands == {"echo hello", "echo a 1>&2", "printf 'a\\n\\n'",
                   "echo hello; echo a 1>&2"}
\* commands that each write a byte no other command writes, and those bytes
Numbered == <<"echo 1", "echo 2", "echo 3", "echo 4", "echo 5">>
Digits == <<"1", "2", "3", "4", "5">>
\* Process.returncode while the process is alive
None == "None"

\* commands of two lines whose second line is larger than what the stdin
\* pipe and the write buffer of its transport take before the transport
\* pauses the writer; the first line sleeps for ever or does nothing
LargeCommands == {"sleep infinity\ntrue x...(200000 bytes)",
                  ":\ntrue x...(200000 bytes)"}
Filler == "true x...(200000 bytes)"
\* the lines of a command as the shell reads them from its stdin
Lines(c) ==
    CASE c = "sleep infinity\ntrue x...(200000 bytes)" -> <<"sleep infinity\n", Filler>>
      [] c = ":\ntrue x...(200000 bytes)" -> <<":\n", Filler>>
      [] OTHER -> <<c>>

VARIABLES
    session,    \* BashTool._session: 0 is None, otherwise an index of sessions
    sessions,   \* the _BashSession objects created so far
    procs,      \* the shell processes spawned so far
    pc,         \* per task: where its forward call is suspended
    command,    \* per task: forward's argument command
    restart,    \* per task: forward's argument restart
    self,       \* per task: the session whose start or run the task is in
    wrote,      \* per task: the call wrote a line to a shell's stdin
    output,     \* per task: run's local output, the stdout buffer as last decoded
    result,     \* per task: what forward returned or raised
    calls,      \* calls of forward made so far, counted where calls overlap
    lock,       \* BrowserManager.lock: 0 is unlocked, otherwise the task that holds it
    manager     \* per task: the BrowserManager operation it is in, and where

vars == <<session, sessions, procs, pc, command, restart, self, wrote, output, result,
          calls, lock, manager>>

\* ------------------------------------------------------------- results ---
NoResult == [kind |-> "none", output |-> <<>>, error |-> <<>>]
Raised(k) == [kind |-> k, output |-> <<>>, error |-> <<>>]
\* {"system": "tool has been restarted"}
Restarted == [kind |-> "system: tool has been restarted", output |-> <<>>, error |-> <<>>]
\* {"system": "tool must be restarted", "error": "bash has exited ..."}
MustRestart == [kind |-> "system: tool must be restarted", output |-> <<>>, error |-> <<>>]
\* {"output": output, "error": error}
Output(o, e) == [kind |-> "output", output |-> o, error |-> e]
\* _BashSession.start returns None
StartReturned == [kind |-> "start: None", output |-> <<>>, error |-> <<>>]
ExcNotStarted == "Exception: Session has not started."
ExcTimedOut == "Exception: timed out: bash has not returned"
ExcNoCommand == "Exception: no command provided."
ExcSpawn == "OSError: create_subprocess_shell"

\* ------------------------------------------------------------ sessions ---
\* _BashSession.__init__
NewSession == [started |-> FALSE, timed_out |-> FALSE, process |-> 0]

\* the process asyncio.create_subprocess_shell returns: stdin is the lines
\* written and not yet read by the shell, echo says that the shell is between
\* a command and the echo of the sentinel that follows it, stdout and stderr
\* are the buffers of the two StreamReaders, errpipe is what the shell has
\* written to its stderr and the transport has not yet fed to the reader,
\* blocked says that the shell waits for a command that never ends
NewProcess == [returncode |-> None, terminated |-> FALSE, signalled |-> FALSE,
               stdin |-> <<>>, echo |-> FALSE, stdout |-> <<>>, stderr |-> <<>>,
               errpipe |-> <<>>, blocked |-> FALSE]

\* _BashSession.start: if self._started: return
start_begin_always(ss, s) == "spawn"
start_begin(ss, s) == IF ss[s].started THEN "return" ELSE "spawn"

\* _BashSession.stop raises when the session has not started
stop_raises(ss, s) == ~ss[s].started

\* _BashSession.stop on a started session: terminate unless already exited
stop_noterminate(ss, pp, s) == pp
stop(ss, pp, s) ==
    IF pp[ss[s].process].returncode # None
    THEN pp
    ELSE [pp EXCEPT ![ss[s].process].terminated = TRUE]

\* _BashSession.run, the checks before the write
run_check_noexit(ss, pp, s) ==
    IF ~ss[s].started THEN ExcNotStarted
    ELSE IF ss[s].timed_out THEN ExcTimedOut
    ELSE "write"
run_check_notimedout(ss, pp, s) ==
    IF ~ss[s].started THEN ExcNotStarted
    ELSE IF pp[ss[s].process].returncode # None THEN "must restart"
    ELSE "write"
run_check_timeoutfirst(ss, pp, s) ==
    IF ~ss[s].started THEN ExcNotStarted
    ELSE IF ss[s].timed_out THEN ExcTimedOut
    ELSE IF pp[ss[s].process].returncode # None THEN "must restart"
    ELSE "write"
run_check(ss, pp, s) ==
    IF ~ss[s].started THEN ExcNotStarted
    ELSE IF pp[ss[s].process].returncode # None THEN "must restart"
    ELSE IF ss[s].timed_out THEN ExcTimedOut
    ELSE "write"

\* self._process.stdin.write(command + "; echo '<<exit>>'\n")
stdin_write(pp, p, c) == [pp EXCEPT ![p].stdin = @ \o Lines(c)]

\* except asyncio.TimeoutError: self._timed_out = True
mark_timed_out_not(ss, s) == ss
mark_timed_out_current(ss, s) == [ss EXCEPT ![session].timed_out = TRUE]
mark_timed_out(ss, s) == [ss EXCEPT ![s].timed_out = TRUE]

\* ------------------------------------------------------------- strings ---
\* str.index: position of the first occurrence, 0 when absent
IndexOf(seq, x) ==
    IF \E i \in 1..Len(seq) : seq[i] = x
    THEN CHOOSE i \in 1..Len(seq) :
             seq[i] = x /\ \A j \in 1..(i - 1) : seq[j] # x
    ELSE 0

Contains(seq, x) == IndexOf(seq, x) # 0

\* output[: output.index(self._sentinel)]
BeforeSentinel_last(seq) ==
    SubSeq(seq, 1, (CHOOSE i \in 1..Len(seq) :
                       /\ seq[i] = Sentinel
                       /\ \A j \in (i + 1)..Len(seq) : seq[j] # Sentinel) - 1)
BeforeSentinel(seq) == SubSeq(seq, 1, IndexOf(seq, Sentinel) - 1)

\* if output.endswith("\n"): output = output[:-1]
StripNewline(seq) ==
    IF Len(seq) > 0 /\ seq[Len(seq)] = NL
    THEN SubSeq(seq, 1, Len(seq) - 1)
    ELSE seq

\* --------------------------------------------------------------- state ---
\* no BrowserManager operation in progress
NoOperation == [op |-> "", at |-> "idle", nested |-> FALSE]

Init ==
    /\ session = 0
    /\ sessions = <<>>
    /\ procs = <<>>
    /\ pc = [t \in Tasks |-> "idle"]
    /\ command = [t \in Tasks |-> ""]
    /\ restart = [t \in Tasks |-> FALSE]
    /\ self = [t \in Tasks |-> 0]
    /\ wrote = [t \in Tasks |-> FALSE]
    /\ output = [t \in Tasks |-> <<>>]
    /\ result = [t \in Tasks |-> NoResult]
    /\ calls = 0
    /\ lock = 0
    /\ manager = [t \in Tasks |-> NoOperation]

\* the call of task t ends with result r
\* await self._process.stdin.drain() suspends the call while the transport
\* of stdin keeps the writer paused: as long as the shell has not read the
\* large line
stdin_paused(q) == Contains(q.stdin, Filler)

Finish(t, r) ==
    /\ pc' = [pc EXCEPT ![t] = "done"]
    /\ result' = [result EXCEPT ![t] = r]

\* BashTool.forward, lines 155-158, with the part of _BashSession.run that
\* runs before its first suspension; ss and pp are the sessions and the
\* processes as the call has left them so far
forward_command(c) == c # ""

forward_tail(t, c, ss, pp) ==
    /\ sessions' = ss
    /\ IF forward_command(c)
       THEN LET chk == run_check(ss, pp, session) IN
            /\ self' = [self EXCEPT ![t] = session]
            /\ IF chk = "write"
               THEN /\ procs' = stdin_write(pp, ss[session].process, c)
                    /\ wrote' = [wrote EXCEPT ![t] = TRUE]
                    /\ pc' = [pc EXCEPT ![t] =
                                 IF stdin_paused(procs'[ss[session].process])
                                 THEN "drain" ELSE "poll"]
                    /\ UNCHANGED result
               ELSE /\ procs' = pp
                    /\ UNCHANGED wrote
                    /\ Finish(t, IF chk = "must restart" THEN MustRestart
                                 ELSE Raised(chk))
       ELSE /\ procs' = pp
            /\ UNCHANGED <<self, wrote>>
            /\ Finish(t, Raised(ExcNoCommand))

\* BashTool.forward with restart, up to the await in start
forward_restart(t) ==
    IF session # 0 /\ stop_raises(sessions, session)
    THEN /\ Finish(t, Raised(ExcNotStarted))
         /\ UNCHANGED <<session, sessions, procs, self, wrote>>
    ELSE /\ Len(sessions) < MaxSessions
         /\ procs' = IF session # 0 THEN stop(sessions, procs, session) ELSE procs
         /\ sessions' = Append(sessions, NewSession)
         /\ session' = Len(sessions) + 1
         /\ self' = [self EXCEPT ![t] = Len(sessions) + 1]
         /\ pc' = [pc EXCEPT ![t] = "spawn"]
         /\ UNCHANGED <<wrote, result>>

\* if self._session is None
forward_lazy_always == TRUE
forward_lazy == session = 0

\* BashTool.forward without restart, up to its first suspension
forward_command_call(t, c) ==
    IF forward_lazy
    THEN /\ Len(sessions) < MaxSessions
         /\ sessions' = Append(sessions, NewSession)
         /\ session' = Len(sessions) + 1
         /\ self' = [self EXCEPT ![t] = Len(sessions) + 1]
         /\ pc' = [pc EXCEPT ![t] = "spawn"]
         /\ UNCHANGED <<procs, wrote, result>>
    ELSE /\ forward_tail(t, c, sessions, procs)
         /\ UNCHANGED session

\* a caller invokes forward(command, restart)
forward(t, c, r) ==
    /\ pc[t] = "idle"
    /\ command' = [command EXCEPT ![t] = c]
    /\ restart' = [restart EXCEPT ![t] = r]
    /\ IF r THEN forward_restart(t) ELSE forward_command_call(t, c)
    /\ UNCHANGED output

\* create_subprocess_shell returns: _BashSession.start finishes, and forward
\* goes on to its return (restart) or to run (lazy start)
start_done(t) ==
    /\ pc[t] = "spawn"
    /\ LET s == self[t]
           pp == Append(procs, NewProcess)
           ss == [sessions EXCEPT ![s].process = Len(procs) + 1,
                                  ![s].started = TRUE]
       IN IF restart[t]
          THEN /\ sessions' = ss
               /\ procs' = pp
               /\ Finish(t, Restarted)
               /\ UNCHANGED <<self, wrote>>
          ELSE forward_tail(t, command[t], ss, pp)
    /\ UNCHANGED <<session, command, restart, output,
                 calls, lock, manager>>

\* create_subprocess_shell raises: the session stays created and not started
start_fails(t) ==
    /\ pc[t] = "spawn"
    /\ Finish(t, Raised(ExcSpawn))
    /\ UNCHANGED <<session, sessions, procs, command, restart, self, wrote, output,
                 calls, lock, manager>>

\* a caller invokes _BashSession.start() on the session of the Facade
session_start(t) ==
    /\ pc[t] = "idle"
    /\ session # 0
    /\ self' = [self EXCEPT ![t] = session]
    /\ IF start_begin(sessions, session) = "return"
       THEN Finish(t, StartReturned)
       ELSE /\ pc' = [pc EXCEPT ![t] = "start"]
            /\ UNCHANGED result
    /\ UNCHANGED <<session, sessions, procs, command, restart, wrote, output,
                 calls, lock, manager>>

\* create_subprocess_shell returns to that call of start
session_start_done(t) ==
    /\ pc[t] = "start"
    /\ sessions' = [sessions EXCEPT ![self[t]].process = Len(procs) + 1,
                                    ![self[t]].started = TRUE]
    /\ procs' = Append(procs, NewProcess)
    /\ Finish(t, StartReturned)
    /\ UNCHANGED <<session, command, restart, self, wrote, output,
                 calls, lock, manager>>

\* create_subprocess_shell raises in that call of start
session_start_fails(t) ==
    /\ pc[t] = "start"
    /\ Finish(t, Raised(ExcSpawn))
    /\ UNCHANGED <<session, sessions, procs, command, restart, self, wrote, output,
                 calls, lock, manager>>

\* _BashSession.run: stdin.drain() returns and the call enters asyncio.timeout
run_drain(t) ==
    /\ pc[t] = "drain"
    /\ ~stdin_paused(procs[sessions[self[t]].process])
    /\ pc' = [pc EXCEPT ![t] = "poll"]
    /\ UNCHANGED <<session, sessions, procs, command, restart, self, wrote, output,
                   result, calls, lock, manager>>

\* _BashSession.run: one round of the loop after asyncio.sleep returns
run_poll_consuming(t) ==
    /\ pc[t] = "poll"
    /\ LET p == sessions[self[t]].process
           decoded == procs[p].stdout
       IN /\ output' = [output EXCEPT ![t] = decoded]
          /\ IF Contains(decoded, Sentinel)
             THEN /\ Finish(t, Output(StripNewline(BeforeSentinel(decoded)),
                                      StripNewline(procs[p].stderr)))
                  /\ procs' = [procs EXCEPT ![p].stdout = <<>>, ![p].stderr = <<>>]
             ELSE /\ procs' = [procs EXCEPT ![p].stdout = <<>>]
                  /\ UNCHANGED <<pc, result>>
    /\ UNCHANGED <<session, sessions, command, restart, self, wrote,
                 calls, lock, manager>>
run_poll_keeping(t) ==
    /\ pc[t] = "poll"
    /\ LET p == sessions[self[t]].process
           decoded == procs[p].stdout
       IN /\ output' = [output EXCEPT ![t] = decoded]
          /\ IF Contains(decoded, Sentinel)
             THEN /\ Finish(t, Output(StripNewline(BeforeSentinel(decoded)),
                                      StripNewline(procs[p].stderr)))
                  /\ procs' = [procs EXCEPT ![p].stderr = <<>>]
             ELSE UNCHANGED <<pc, result, procs>>
    /\ UNCHANGED <<session, sessions, command, restart, self, wrote,
                 calls, lock, manager>>
run_poll(t) ==
    /\ pc[t] = "poll"
    /\ LET p == sessions[self[t]].process
           decoded == procs[p].stdout
       IN /\ output' = [output EXCEPT ![t] = decoded]
          /\ IF Contains(decoded, Sentinel)
             THEN /\ Finish(t, Output(StripNewline(BeforeSentinel(decoded)),
                                      StripNewline(procs[p].stderr)))
                  /\ procs' = [procs EXCEPT ![p].stdout = <<>>, ![p].stderr = <<>>]
             ELSE UNCHANGED <<pc, result, procs>>
    /\ UNCHANGED <<session, sessions, command, restart, self, wrote,
                 calls, lock, manager>>

\* _BashSession.run: asyncio.timeout expires while the task sleeps
run_timeout_interrupting(t) ==
    /\ pc[t] = "poll"
    /\ sessions' = mark_timed_out(sessions, self[t])
    /\ procs' = [procs EXCEPT ![sessions[self[t]].process].signalled = TRUE]
    /\ Finish(t, Raised(ExcTimedOut))
    /\ UNCHANGED <<session, command, restart, self, wrote, output,
                 calls, lock, manager>>
run_timeout(t) ==
    /\ pc[t] = "poll"
    /\ sessions' = mark_timed_out(sessions, self[t])
    /\ Finish(t, Raised(ExcTimedOut))
    /\ UNCHANGED <<session, procs, command, restart, self, wrote, output,
                 calls, lock, manager>>

\* the caller takes the result; the task is free for the next call
call_returns(t) ==
    /\ pc[t] = "done"
    /\ pc' = [pc EXCEPT ![t] = "idle"]
    /\ command' = [command EXCEPT ![t] = ""]
    /\ restart' = [restart EXCEPT ![t] = FALSE]
    /\ self' = [self EXCEPT ![t] = 0]
    /\ wrote' = [wrote EXCEPT ![t] = FALSE]
    /\ output' = [output EXCEPT ![t] = <<>>]
    /\ result' = [result EXCEPT ![t] = NoResult]
    /\ UNCHANGED <<session, sessions, procs,
                 calls, lock, manager>>

\* ----------------------------------------------------------- the shell ---
\* what the command writes to standard output and to standard error
StdoutOf(c) ==
    CASE c \in {"echo hello", "echo hello; echo a 1>&2"} -> <<"hello", NL>>
      [] c = "printf 'a\\n\\n'"   -> <<"a", NL, NL>>
      [] \E k \in 1..Len(Numbered) : c = Numbered[k]
             -> <<Digits[CHOOSE k \in 1..Len(Numbered) : c = Numbered[k]], NL>>
      [] OTHER                   -> <<>>
StderrOf(c) ==
    CASE c \in {"echo a 1>&2", "echo hello; echo a 1>&2"} -> <<"a", NL>>
      [] c = "ctrl+c"            -> <<"bash: ctrl+c: command not found", NL>>
      [] OTHER                   -> <<>>

\* what /bin/bash does with the command part of a line read from stdin: the
\* bytes for stdout reach the reader's buffer in the order written, with the
\* sentinel behind them; the bytes for stderr travel through the other pipe
shell_exec(q, c) ==
    IF c = "exit"
    THEN [q EXCEPT !.returncode = "0"]
    ELSE IF c = "sleep infinity\n"
    THEN [q EXCEPT !.blocked = TRUE]
    ELSE IF c = ":\n"
    THEN q
    ELSE [q EXCEPT !.stdout = @ \o StdoutOf(c),
                   !.errpipe = @ \o StderrOf(c),
                   !.echo = TRUE]

\* bash reads the next line and runs its command
shell_run(p) ==
    /\ procs[p].returncode = None
    /\ ~procs[p].echo
    /\ ~procs[p].blocked
    /\ procs[p].stdin # <<>>
    /\ Len(procs[p].errpipe) + Len(StderrOf(Head(procs[p].stdin))) <= MaxErrPipe
    /\ procs' = [procs EXCEPT ![p] =
                    shell_exec([@ EXCEPT !.stdin = Tail(@)], Head(procs[p].stdin))]
    /\ UNCHANGED <<session, sessions, pc, command, restart, self, wrote, output, result,
                   calls, lock, manager>>

\* bash runs the echo '<<exit>>' that follows the command
shell_echo(p) ==
    /\ procs[p].returncode = None
    /\ procs[p].echo
    /\ procs' = [procs EXCEPT ![p].stdout = @ \o <<Sentinel, NL>>, ![p].echo = FALSE]
    /\ UNCHANGED <<session, sessions, pc, command, restart, self, wrote, output, result,
                   calls, lock, manager>>

\* the transport of the stderr pipe feeds what it has read to the reader
stderr_arrives(p) ==
    /\ procs[p].errpipe # <<>>
    /\ procs' = [procs EXCEPT ![p].stderr = @ \o procs[p].errpipe,
                              ![p].errpipe = <<>>]
    /\ UNCHANGED <<session, sessions, pc, command, restart, self, wrote, output, result,
                   calls, lock, manager>>

\* Process.terminate took effect: the process is gone
shell_terminated(p) ==
    /\ procs[p].returncode = None
    /\ procs[p].terminated
    /\ procs' = [procs EXCEPT ![p].returncode = "-15"]
    /\ UNCHANGED <<session, sessions, pc, command, restart, self, wrote, output, result,
                   calls, lock, manager>>

\* the commands issued where calls overlap; none of them writes to stderr
OverlapCommands == {"", "echo hello"}

\* the steps of the shell processes
shell_step ==
    \/ \E p \in 1..Len(procs) : shell_run(p)
    \/ \E p \in 1..Len(procs) : shell_echo(p)
    \/ \E p \in 1..Len(procs) : shell_terminated(p)

\* a call of forward that may overlap the calls of other tasks; with restart
\* the command text is not looked at
forward_overlapping(t, c, r) ==
    /\ calls < MaxCalls
    /\ calls' = calls + 1
    /\ UNCHANGED <<lock, manager>>
    /\ forward(t, c, r)

\* at most MaxCalls calls of forward from NumTasks tasks, overlapping in
\* every possible way
Next ==
    \/ \E t \in Tasks : \E c \in OverlapCommands : forward_overlapping(t, c, FALSE)
    \/ \E t \in Tasks : forward_overlapping(t, "", TRUE)
    \/ \E t \in Tasks : start_done(t)
    \/ \E t \in Tasks : start_fails(t)
    \/ \E t \in Tasks : run_poll(t)
    \/ \E t \in Tasks : run_timeout(t)
    \/ \E t \in Tasks : call_returns(t)
    \/ shell_step

Spec == Init /\ [][Next]_vars

\* the caller awaits each call before the next one: only one task calls
Caller == CHOOSE t \in Tasks : \A u \in Tasks : t <= u

\* a call of forward by the one caller
forward_serial(c, r) ==
    /\ forward(Caller, c, r)
    /\ UNCHANGED <<calls, lock, manager>>

NextSerial ==
    \/ \E c \in Commands : \E r \in BOOLEAN : forward_serial(c, r)
    \/ start_done(Caller)
    \/ start_fails(Caller)
    \/ run_poll(Caller)
    \/ run_timeout(Caller)
    \/ call_returns(Caller)
    \/ shell_step
    \/ \E p \in 1..Len(procs) : stderr_arrives(p)

SpecSerial == Init /\ [][NextSerial]_vars

\* one caller runs commands that produce output, one after the other, on the
\* session the first of them starts
NextOutput ==
    \/ \E c \in OutputCommands : forward_serial(c, FALSE)
    \/ start_done(Caller)
    \/ start_fails(Caller)
    \/ run_poll(Caller)
    \/ run_timeout(Caller)
    \/ call_returns(Caller)
    \/ \E p \in 1..Len(procs) : shell_run(p)
    \/ \E p \in 1..Len(procs) : shell_echo(p)
    \/ \E p \in 1..Len(procs) : stderr_arrives(p)

SpecOutput == Init /\ [][NextOutput]_vars

\* a call of forward that may overlap the calls of other tasks, with a
\* command that no other call issues
forward_numbered(t) ==
    /\ calls < Len(Numbered)
    /\ forward_overlapping(t, Numbered[calls + 1], FALSE)

\* overlapping calls on one session, each with a command of its own
NextBytes ==
    \/ \E t \in Tasks : forward_numbered(t)
    \/ \E t \in Tasks : start_done(t)
    \/ \E t \in Tasks : start_fails(t)
    \/ \E t \in Tasks : run_poll(t)
    \/ \E t \in Tasks : run_timeout(t)
    \/ \E t \in Tasks : call_returns(t)
    \/ \E p \in 1..Len(procs) : shell_run(p)
    \/ \E p \in 1..Len(procs) : shell_echo(p)

SpecBytes == Init /\ [][NextBytes]_vars

\* ---------------------------------------------------- BrowserManager ---
\* operations of BrowserManager; each runs its browser calls inside
\* async with self.lock
ManagerOps == {"navigate", "click", "get_html", "get_text", "screenshot"}

\* a caller invokes an operation of the manager and reaches async with
\* self.lock
manager_call(t, op) ==
    /\ manager[t].at = "idle"
    /\ manager' = [manager EXCEPT ![t] = [op |-> op, at |-> "acquire", nested |-> FALSE]]
    /\ UNCHANGED <<session, sessions, procs, pc, command, restart, self, wrote, output,
                   result, calls, lock>>

\* asyncio.Lock.acquire returns: the lock was free and the task now holds it
lock_acquire(t) ==
    /\ manager[t].at = "acquire"
    /\ lock = 0
    /\ lock' = t
    /\ manager' = [manager EXCEPT ![t].at = "locked"]
    /\ UNCHANGED <<session, sessions, procs, pc, command, restart, self, wrote, output,
                   result, calls>>

\* the browser calls of the operation return: navigate goes on to call
\* get_text with the lock held, every other operation leaves async with,
\* which releases the lock, and returns
manager_returns(t) ==
    /\ manager[t].at = "locked"
    /\ IF manager[t].op = "navigate"
       THEN /\ manager' = [manager EXCEPT ![t] =
                               [op |-> "get_text", at |-> "acquire", nested |-> TRUE]]
            /\ UNCHANGED lock
       ELSE /\ lock' = 0
            /\ manager' = [manager EXCEPT ![t].at = "done"]
    /\ UNCHANGED <<session, sessions, procs, pc, command, restart, self, wrote, output,
                   result, calls>>

\* the caller takes the result of the operation
manager_done(t) ==
    /\ manager[t].at = "done"
    /\ manager' = [manager EXCEPT ![t] = NoOperation]
    /\ UNCHANGED <<session, sessions, procs, pc, command, restart, self, wrote, output,
                   result, calls, lock>>

\* tasks that call the operations of one BrowserManager; the event loop
\* resumes a task whose browser calls have returned, and a task that waits
\* for the lock gets it if the lock is free again and again
NextManager ==
    \/ \E t \in Tasks : \E op \in ManagerOps : manager_call(t, op)
    \/ \E t \in Tasks : lock_acquire(t)
    \/ \E t \in Tasks : manager_returns(t)
    \/ \E t \in Tasks : manager_done(t)

SpecManager ==
    /\ Init /\ [][NextManager]_vars
    /\ \A t \in Tasks : SF_vars(lock_acquire(t))
    /\ \A t \in Tasks : WF_vars(manager_returns(t))

\* the commands issued where start is also called on its own
StartCommands == {"echo hello", "exit"}

\* one caller that calls forward and, between calls of forward, start on the
\* session the Facade holds
NextStart ==
    \/ \E c \in StartCommands, r \in BOOLEAN : forward_serial(c, r)
    \/ start_done(Caller)
    \/ start_fails(Caller)
    \/ session_start(Caller)
    \/ session_start_done(Caller)
    \/ session_start_fails(Caller)
    \/ run_poll(Caller)
    \/ run_timeout(Caller)
    \/ call_returns(Caller)
    \/ shell_step

SpecStart == Init /\ [][NextStart]_vars

\* the commands of the calls whose termination is examined
DrainCommands == {"echo hello", "sleep 1000"} \cup LargeCommands

\* one caller, each call awaited before the next, with large commands; the
\* event loop resumes a call whose await can complete, the timer of
\* asyncio.timeout fires while the call polls, and the shell runs what it
\* has read
NextDrain ==
    \/ \E c \in DrainCommands, r \in BOOLEAN : forward_serial(c, r)
    \/ start_done(Caller)
    \/ start_fails(Caller)
    \/ run_drain(Caller)
    \/ run_poll(Caller)
    \/ run_timeout(Caller)
    \/ call_returns(Caller)
    \/ shell_step

SpecDrain ==
    /\ Init /\ [][NextDrain]_vars
    /\ WF_vars(start_done(Caller) \/ start_fails(Caller))
    /\ WF_vars(run_drain(Caller))
    /\ WF_vars(run_timeout(Caller))
    /\ WF_vars(shell_step)

\* ------------------------------------------------------------ vocabulary -
\* the lifecycle state of session s (0: the Facade holds no session), by the
\* order of the checks in _BashSession.run
SessionState(s) ==
    IF s = 0 THEN "NoSession"
    ELSE IF ~sessions[s].started THEN "NotStarted"
    ELSE IF procs[sessions[s].process].returncode # None THEN "Exited"
    ELSE IF sessions[s].timed_out THEN "TimedOut"
    ELSE "Running"

\* this step is task t entering forward
Invoked(t) == pc[t] = "idle" /\ pc'[t] # "idle"
\* this step is the end of task t's call
Ended(t) == pc[t] # "done" /\ pc'[t] = "done"
\* this step writes nothing to the stdin of any process that existed before
NothingWritten ==
    \A p \in 1..Len(procs) : Len(procs'[p].stdin) <= Len(procs[p].stdin)

TypeOK ==
    /\ session \in 0..Len(sessions)
    /\ Len(sessions) <= MaxSessions
    /\ Len(procs) <= Len(sessions)
    /\ \A s \in 1..Len(sessions) : sessions[s].started <=> sessions[s].process # 0

\* a is an initial part of b
IsPrefix(a, b) == Len(a) <= Len(b) /\ SubSeq(b, 1, Len(a)) = a

\* task t ends its wait with an output in this step
Extracted(t) == pc[t] = "poll" /\ pc'[t] = "done" /\ result'[t].kind = "output"

\* C1: a call with restart=true that is not stopped by a failing spawn ends
\* with the restart acknowledgement and leaves the Facade holding a session
\* in the Running state, whatever the state of the session before
C1_RestartAlwaysRunning ==
    [][\A t \in Tasks :
          (Ended(t) /\ restart'[t] /\ result'[t].kind # ExcSpawn)
              => /\ result'[t] = Restarted
                 /\ SessionState(session)' = "Running"]_vars

\* C2: a call that has written its command and ends without the sentinel in
\* the output buffer ends with the timeout error, and every call that ends
\* its wait without an output ends with the timeout error and leaves the
\* timed-out flag of its session set
C2_TimeoutMarksSession ==
    [][\A t \in Tasks :
          (pc[t] = "poll" /\ pc'[t] = "done")
              => /\ ~Contains(procs[sessions[self[t]].process].stdout, Sentinel)
                        => result'[t].kind # "output"
                 /\ result'[t].kind # "output"
                        => /\ result'[t] = Raised(ExcTimedOut)
                           /\ sessions'[self[t]].timed_out]_vars

\* C2 witness: "sleep 1000" was written and the call ended with the timeout
\* error on a session now marked timed out
C2_Witness ==
    \E t \in Tasks :
        /\ pc[t] = "done" /\ wrote[t] /\ command[t] = "sleep 1000"
        /\ result[t] = Raised(ExcTimedOut)
        /\ sessions[self[t]].timed_out
        /\ SessionState(self[t]) = "TimedOut"

\* the results that are not an {output, error} of an executed command
Failures == {Raised(ExcTimedOut), Raised(ExcNoCommand), MustRestart}

\* C3: the timed-out flag of a session is never cleared; a call without
\* restart that finds the Facade's session timed out ends in the same step
\* with a failure and writes nothing; and no step writes to the stdin of a
\* session whose flag is set
C3_TimedOutSticky ==
    [][/\ \A s \in 1..Len(sessions) :
              sessions[s].timed_out => sessions'[s].timed_out
       /\ \A t \in Tasks :
              (Invoked(t) /\ ~restart'[t] /\ session # 0
                          /\ sessions[session].timed_out)
                  => /\ pc'[t] = "done"
                     /\ result'[t] \in Failures
                     /\ procs' = procs
                     /\ session' = session
       /\ \A s \in 1..Len(sessions) :
              (sessions[s].timed_out
                   => Len(procs'[sessions[s].process].stdin)
                          <= Len(procs[sessions[s].process].stdin))]_vars

\* C3 witness: a non-empty command was refused with the timeout error without
\* a write, on the timed-out session the Facade still holds
C3_Witness ==
    \E t \in Tasks :
        /\ pc[t] = "done" /\ ~restart[t] /\ ~wrote[t] /\ command[t] # ""
        /\ result[t] = Raised(ExcTimedOut)
        /\ self[t] = session
        /\ SessionState(session) = "TimedOut"

\* C4: a call with an empty command and no restart on a Facade whose session
\* is Running is not rejected with the no-command error
C4_EmptyCommandPolls ==
    [][\A t \in Tasks :
          (Invoked(t) /\ ~restart'[t] /\ command'[t] = ""
                      /\ SessionState(session) = "Running")
              => result'[t] # Raised(ExcNoCommand)]_vars

\* C5: a call with an empty command and no restart on a Facade without a
\* session ends with the no-command error, and a call ends with the
\* no-command error only if it found the Facade without a session
C5_NoCommandOnlyWithoutSession ==
    [][\A t \in Tasks :
          /\ (pc[t] = "spawn" /\ ~restart[t] /\ command[t] = "" /\ Ended(t)
                  /\ result'[t].kind # ExcSpawn)
                 => result'[t] = Raised(ExcNoCommand)
          /\ (Ended(t) /\ result'[t] = Raised(ExcNoCommand))
                 => pc[t] = "spawn"]_vars

\* C6: the interrupt token ctrl+c submitted to a Running session signals the
\* process group of the shell and writes nothing to its stdin
C6_InterruptSignals ==
    [][\A t \in Tasks :
          (Invoked(t) /\ ~restart'[t] /\ command'[t] = "ctrl+c"
                      /\ SessionState(session) = "Running")
              => /\ procs'[sessions[session].process].signalled
                 /\ NothingWritten]_vars

\* C7: a non-empty command without restart on a session whose process has
\* exited ends in the same step with the must-restart result as a value,
\* writes nothing and leaves the Facade, the sessions and the processes as
\* they were
C7_ExitedMustRestart ==
    [][\A t \in Tasks :
          (Invoked(t) /\ ~restart'[t] /\ command'[t] # "" /\ session # 0
                      /\ sessions[session].started
                      /\ procs[sessions[session].process].returncode # None)
              => /\ pc'[t] = "done"
                 /\ result'[t] = MustRestart
                 /\ <<session, sessions, procs>>' = <<session, sessions, procs>>]_vars

\* C7 witness: a command got the must-restart result, nothing written, from
\* the exited session the Facade holds
C7_Witness ==
    \E t \in Tasks :
        /\ pc[t] = "done" /\ ~restart[t] /\ ~wrote[t] /\ command[t] # ""
        /\ result[t] = MustRestart
        /\ self[t] = session
        /\ SessionState(session) = "Exited"

\* this step belongs to a call of task t with restart=true
RestartStep(t) ==
    \/ Invoked(t) /\ restart'[t]
    \/ pc[t] = "spawn" /\ restart[t] /\ pc'[t] # "spawn"

\* C8: no step of a call with restart=true writes to a stdin, the new
\* process starts with nothing written, and the call, unless its spawn
\* fails, ends with the restart acknowledgement, whatever the command
C8_RestartIgnoresCommand ==
    [][\A t \in Tasks :
          RestartStep(t)
              => /\ NothingWritten
                 /\ \A p \in (Len(procs) + 1)..Len(procs') : procs'[p].stdin = <<>>
                 /\ ~wrote'[t]
                 /\ (Ended(t) /\ result'[t].kind # ExcSpawn)
                        => result'[t] = Restarted]_vars

\* C9: a call without restart on a Facade with no session creates exactly
\* one session and makes it the Facade's; when its spawn returns exactly one
\* process exists more, the session is started on it and a non-empty command
\* is the one line written to it; and no step other than the entry of a
\* restart call changes a Facade session once set, creates a session, or
\* changes the process of a started session
C9_LazyStartThenSameSession ==
    [][/\ \A t \in Tasks :
              (Invoked(t) /\ ~restart'[t] /\ session = 0)
                  => /\ Len(sessions') = Len(sessions) + 1
                     /\ session' = Len(sessions')
                     /\ self'[t] = session'
                     /\ pc'[t] = "spawn"
       /\ \A t \in Tasks :
              (pc[t] = "spawn" /\ ~restart[t] /\ pc'[t] # "spawn"
                               /\ result'[t].kind # ExcSpawn)
                  => /\ Len(procs') = Len(procs) + 1
                     /\ sessions'[self[t]].started
                     /\ sessions'[self[t]].process = Len(procs')
                     /\ self[t] = session'
                     /\ command[t] # ""
                            => /\ procs'[Len(procs')].stdin = <<command[t]>>
                               /\ pc'[t] = "poll"
       /\ (session # 0 /\ ~\E t \in Tasks : Invoked(t) /\ restart'[t])
              => /\ session' = session
                 /\ Len(sessions') = Len(sessions)
                 /\ sessions[session].started
                        => /\ sessions'[session].process = sessions[session].process
                           /\ Len(procs') = Len(procs)]_vars

\* C9 witness: the lazily created session, the only session and the only
\* process there is, has completed a command
C9_Witness ==
    \E t \in Tasks :
        /\ pc[t] = "done" /\ ~restart[t] /\ wrote[t]
        /\ result[t] = Output(<<"hello">>, <<>>)
        /\ session = 1 /\ self[t] = 1 /\ Len(sessions) = 1 /\ Len(procs) = 1
        /\ SessionState(session) = "Running"

\* C10: every process ever spawned is the process of the Facade's session,
\* or has exited, or has been sent a termination request; and the Facade's
\* session reference changes only at the entry of a restart call or of a
\* call that finds no session
C10_AtMostOneActive ==
    /\ [](\A p \in 1..Len(procs) :
              \/ session # 0 /\ sessions[session].process = p
              \/ procs[p].returncode # None
              \/ procs[p].terminated)
    /\ [][session' # session
              => \E t \in Tasks : Invoked(t) /\ (restart'[t] \/ session = 0)]_vars

\* C10 witness: a second session runs while the process of the first, which
\* restart replaced during another call's wait, is still alive with its
\* termination requested
C10_Witness ==
    /\ Len(procs) = 2 /\ session = 2
    /\ SessionState(session) = "Running"
    /\ procs[1].returncode = None /\ procs[1].terminated
    /\ \E t \in Tasks : pc[t] = "poll" /\ self[t] = 1

\* C11: a call that ends with an output returns the bytes its command wrote
\* to standard output and the bytes it wrote to standard error, each with one
\* trailing newline removed, in whatever order the two pipes deliver them
C11_OutputAndErrorComplete ==
    [][\A t \in Tasks :
          Extracted(t)
              => /\ result'[t].output = StripNewline(StdoutOf(command[t]))
                 /\ result'[t].error = StripNewline(StderrOf(command[t]))]_vars

\* C13: the extraction leaves both buffers empty, and the output and error of
\* a result are made of bytes of the call's own command only: each is an
\* initial part of what that command wrote, minus one trailing newline
C13_NoStaleBytes ==
    [][\A t \in Tasks :
          Extracted(t)
              => LET p == sessions[self[t]].process
                     out == StdoutOf(command[t])
                     err == StderrOf(command[t])
                 IN /\ procs'[p].stdout = <<>> /\ procs'[p].stderr = <<>>
                    /\ \E k \in 0..Len(out) :
                          result'[t].output = StripNewline(SubSeq(out, 1, k))
                    /\ \E k \in 0..Len(err) :
                          result'[t].error = StripNewline(SubSeq(err, 1, k))]_vars

\* C12: no call ends with a raised exception for the timeout, the missing
\* command or the session that has not started: each of these conditions is
\* returned to the caller as a value
C12_NoRaisedFault ==
    \A t \in Tasks :
        result[t] \notin {Raised(ExcTimedOut), Raised(ExcNoCommand),
                          Raised(ExcNotStarted)}

\* C14: a call writes its command to the stdin of a session only while no
\* other call that wrote to that session is still waiting for its sentinel
C14_OneCommandInFlight ==
    [][\A t \in Tasks :
          (~wrote[t] /\ wrote'[t])
              => \A u \in Tasks \ {t} :
                    ~(pc[u] = "poll" /\ wrote[u] /\ self[u] = self'[t])]_vars

\* C15: no call ends with the error "Session has not started."
C15_NotStartedNeverSurfaced ==
    \A t \in Tasks : result[t].kind # ExcNotStarted

C18_AfterSentinelKept ==
    [][\A t \in Tasks :
          Extracted(t)
              => LET p == sessions[self[t]].process
                     buf == procs[p].stdout
                     i == IndexOf(buf, Sentinel)
                 IN /\ result'[t].output = SubSeq(buf, 1, i - 1)
                    /\ procs'[p].stdout = SubSeq(buf, i + 1, Len(buf))]_vars

\* C18: when the sentinel is found in the output buffer, the returned output
\* is the content before the first occurrence of the sentinel minus one
\* trailing newline, and the whole output buffer, the bytes behind the
\* sentinel included, is discarded
C18_BeforeFirstSentinel ==
    [][\A t \in Tasks :
          Extracted(t)
              => LET p == sessions[self[t]].process
                     buf == procs[p].stdout
                 IN /\ \E i \in 1..Len(buf) :
                          /\ buf[i] = Sentinel
                          /\ \A j \in 1..(i - 1) : buf[j] # Sentinel
                          /\ result'[t].output = StripNewline(SubSeq(buf, 1, i - 1))
                    /\ procs'[p].stdout = <<>>]_vars

\* C18 witness: a call returned "hello" from a buffer that held a second
\* command's output and sentinel behind the first sentinel, and the buffer
\* is empty
C18_Witness ==
    \E t \in Tasks :
        /\ pc[t] = "done" /\ result[t] = Output(<<"hello">>, <<>>)
        /\ output[t] = <<"hello", NL, Sentinel, NL, "hello", NL, Sentinel, NL>>
        /\ procs[sessions[self[t]].process].stdout = <<>>

\* C20: while a call stays in its polling loop the output and error buffers
\* of every process only grow: what they held before a step is an initial
\* part of what they hold after it
C20_PollConsumesNothing ==
    [][\A t \in Tasks :
          (pc[t] = "poll" /\ pc'[t] = "poll")
              => \A p \in 1..Len(procs) :
                    /\ IsPrefix(procs[p].stdout, procs'[p].stdout)
                    /\ IsPrefix(procs[p].stderr, procs'[p].stderr)]_vars

\* C20 witness: a poll saw "hello" without the sentinel; the call is still
\* polling and the buffers hold what the poll saw and what arrived since
C20_Witness ==
    \E t \in Tasks :
        /\ pc[t] = "poll" /\ output[t] = <<"hello", NL>>
        /\ LET q == procs[sessions[self[t]].process]
           IN /\ q.stdout = <<"hello", NL, Sentinel, NL>>
              /\ q.stderr = <<"a", NL>>

\* C16: every call that has started eventually ends with a result or a
\* failure, under fairness of the event loop, the timer and the shell
C16_EveryCallReturns ==
    \A t \in Tasks : (pc[t] \in {"spawn", "drain", "poll"}) ~> (pc[t] = "done")

\* C19: a call of start on a session that has started returns at once: it
\* spawns no process and leaves the sessions, their process handles and the
\* Facade's session reference unchanged; a spawn is awaited only for a
\* session that has not started
C19_StartIdempotent ==
    [][\A t \in Tasks :
          /\ (/\ pc[t] = "idle" /\ session # 0 /\ sessions[session].started
              /\ (pc'[t] = "start" \/ result'[t] = StartReturned))
                 => /\ pc'[t] = "done" /\ result'[t] = StartReturned
                    /\ procs' = procs /\ sessions' = sessions /\ session' = session
          /\ (pc[t] = "start" /\ pc'[t] = "done" /\ result'[t] = StartReturned)
                 => /\ ~sessions[self[t]].started
                    /\ Len(procs') = Len(procs) + 1]_vars

\* C19 witness: start returned on a session that a command had timed out
\* on before, so that it was started when start was called; it has the one
\* process it had
C19_Witness ==
    \E t \in Tasks :
        /\ pc[t] = "done" /\ result[t] = StartReturned
        /\ sessions[self[t]].started /\ sessions[self[t]].timed_out
        /\ Len(procs) = 1

\* C21: a non-empty command without restart on a session whose process has
\* exited and whose timed-out flag is set ends in the same step with the
\* must-restart result, not with the timeout error
C21_ExitedBeforeTimedOut ==
    [][\A t \in Tasks :
          (Invoked(t) /\ ~restart'[t] /\ command'[t] # "" /\ session # 0
                      /\ sessions[session].started
                      /\ sessions[session].timed_out
                      /\ procs[sessions[session].process].returncode # None)
              => /\ pc'[t] = "done"
                 /\ result'[t] = MustRestart
                 /\ result'[t] # Raised(ExcTimedOut)]_vars

\* C21 witness: a command got the must-restart result from a session that is
\* both exited and marked timed out
C21_Witness ==
    \E t \in Tasks :
        /\ pc[t] = "done" /\ ~restart[t] /\ command[t] # ""
        /\ result[t] = MustRestart
        /\ sessions[self[t]].timed_out
        /\ procs[sessions[self[t]].process].returncode # None

\* C22: a call that ends its wait on a session whose process has exited
\* ends with the must-restart result and does not mark the session timed out
C22_ExitDetectedWhileWaiting ==
    [][\A t \in Tasks :
          (pc[t] = "poll" /\ pc'[t] = "done"
                /\ procs[sessions[self[t]].process].returncode # None)
              => /\ result'[t] = MustRestart
                 /\ ~sessions'[self[t]].timed_out]_vars

\* C23: no step of a call with an empty command and without restart changes
\* the Facade's session reference, the sessions or the processes, so that a
\* call that ends with the no-command error has left them as they were
C23_NoCommandLeavesFacade ==
    [][\A t \in Tasks :
          /\ (Invoked(t) /\ ~restart'[t] /\ command'[t] = "")
                 => <<session, sessions, procs>>' = <<session, sessions, procs>>
          /\ (Ended(t) /\ result'[t] = Raised(ExcNoCommand))
                 => <<session, sessions, procs>>' = <<session, sessions, procs>>]_vars

\* C24: a call that waits for its sentinel on a session that a restart has
\* since replaced keeps its session; a step of that call leaves the Facade's
\* session reference, the Facade's session and every process but its own as
\* they were, and when it ends with the timeout error the flag it sets is
\* that of its own session
C24_RestartUndisturbed ==
    [][\A t \in Tasks :
          (pc[t] = "poll" /\ self[t] # session /\ pc'[t] # "poll")
              => /\ self'[t] = self[t]
                 /\ session' = session
                 /\ sessions'[session] = sessions[session]
                 /\ \A p \in 1..Len(procs) :
                        p # sessions[self[t]].process => procs'[p] = procs[p]
                 /\ result'[t] = Raised(ExcTimedOut)
                        => sessions'[self[t]].timed_out]_vars

\* C24 witness: a call that had written its command to the first session
\* ended with the timeout error after a restart replaced that session; the
\* first session is marked timed out, the Facade's session is Running and
\* its flag is clear
C24_Witness ==
    \E t \in Tasks :
        /\ pc[t] = "done" /\ wrote[t] /\ result[t] = Raised(ExcTimedOut)
        /\ self[t] # session
        /\ sessions[self[t]].timed_out
        /\ SessionState(session) = "Running"
        /\ ~sessions[session].timed_out

\* C25: a byte the shell has written to standard output is in at most one
\* place: in the output buffer or in the result of one call, never in two
\* results and never in a result and still in the buffer
C25_ByteReturnedOnce ==
    \A k \in 1..Len(Digits) :
        Cardinality({t \in Tasks : pc[t] = "done"
                                     /\ Contains(result[t].output, Digits[k])})
          + Cardinality({p \in 1..Len(procs) : Contains(procs[p].stdout, Digits[k])})
          <= 1

\* C25 witness: with two calls in flight on one session, a call holds as its
\* result the byte of the other call's command, the buffer is empty and the
\* other call is still waiting
C25_Witness ==
    \E t, u \in Tasks :
        /\ pc[t] = "done" /\ command[t] = "echo 2" /\ result[t].output = <<"1">>
        /\ pc[u] = "poll" /\ command[u] = "echo 1" /\ self[u] = self[t]
        /\ procs[sessions[self[t]].process].stdout = <<>>

\* C26: no task waits for the manager's lock while it holds that lock, and
\* every operation that has been called eventually releases the lock and
\* returns, under fairness of the event loop and of the lock
C26_ManagerOperationsReturn ==
    /\ [](\A t \in Tasks : ~(manager[t].at = "acquire" /\ lock = t))
    /\ \A t \in Tasks :
           (manager[t].at \in {"acquire", "locked"}) ~> (manager[t].at = "done")

=============================================================================
